---- MODULE Spec2Model ----
(***************************************************************************)
(* Model of smart-ingest: the exclusion-pattern inference pipeline         *)
(* (Pattern Validator, Pattern Generator) and the Orchestrator around it.   *)
(* The repository holds two copies of the program: the single-file script  *)
(* src/main.py ("legacy") and the package src/src/main.py with src/src/core *)
(* ("app").  Both are modelled; the variable impl says which one runs.      *)
(*                                                                         *)
(* Text is modelled as a sequence of one-character strings, so that        *)
(* stripping, splitting and replacing are computed as the code does.       *)
(***************************************************************************)
EXTENDS Integers, Sequences, FiniteSets, TLC

\* ------------------------------------------------------------------ bounds
\* Largest --retries value explored (the code accepts any integer).
MaxRetries == 3

\* Longest text body, longest list and longest list item handed to the
\* validator.
MaxBodyLen == 4
MaxListLen == 2
MaxItemLen == 2

\* Largest --max-depth handed to the tree renderer.
MaxDepthBound == 2

\* ------------------------------------------------------- character classes
\* str.strip() / regex \s : whitespace characters of the modelled alphabet.
Whitespace == {" ", "\t", "\n"}

\* The backtick cannot be written inside a TLA+ string: this element of the
\* alphabet stands for it.
BT == "BACKTICK"

\* pattern.strip(QUOTES) with QUOTES = single quote, double quote, backtick
\* and space.
QuoteChars == {"'", "\"", BT, " "}

\* regex class [a-zA-Z]
Letters ==
  {"a","b","c","d","e","f","g","h","i","j","k","l","m",
   "n","o","p","q","r","s","t","u","v","w","x","y","z",
   "A","B","C","D","E","F","G","H","I","J","K","L","M",
   "N","O","P","Q","R","S","T","U","V","W","X","Y","Z"}

\* ------------------------------------------------------------ text helpers
RECURSIVE LStrip(_, _)
\* str.lstrip(cs)
LStrip(s, cs) ==
  IF s # <<>> /\ Head(s) \in cs THEN LStrip(Tail(s), cs) ELSE s

RECURSIVE RStrip(_, _)
\* str.rstrip(cs)
RStrip(s, cs) ==
  IF s # <<>> /\ s[Len(s)] \in cs THEN RStrip(SubSeq(s, 1, Len(s) - 1), cs) ELSE s

\* Strip that forgets the right end
StripLeftOnly(s, cs) == LStrip(s, cs)

\* str.strip(cs)
Strip(s, cs) == RStrip(LStrip(s, cs), cs)

RECURSIVE SkipWhile(_, _, _)
\* first index j >= i with s[j] \notin cs (Len(s)+1 when there is none):
\* where a greedy regex class repetition cs* started at i stops.
SkipWhile(s, i, cs) ==
  IF i <= Len(s) /\ s[i] \in cs THEN SkipWhile(s, i + 1, cs) ELSE i

\* the three characters at i are the fence marker (three backticks)
HasTicks(s, i) ==
  /\ i >= 1
  /\ i + 2 <= Len(s)
  /\ s[i] = BT /\ s[i + 1] = BT /\ s[i + 2] = BT

\* regex alternative 1 (line start, fence, [a-zA-Z]*, \s*) under
\* re.MULTILINE, tried at i:
\* 0 when it does not match, else the index after the match.
OpenFenceEnd(s, i) ==
  IF (i = 1 \/ s[i - 1] = "\n") /\ HasTicks(s, i)
  THEN SkipWhile(s, SkipWhile(s, i + 3, Letters), Whitespace)
  ELSE 0

\* regex alternative 2 (\s*, fence, line end) under re.MULTILINE, tried at i:
\* 0 when it does not match, else the index after the match.
CloseFenceEnd(s, i) ==
  LET j == SkipWhile(s, i, Whitespace)
  IN  IF HasTicks(s, j) /\ (j + 3 > Len(s) \/ s[j + 3] = "\n")
      THEN j + 3
      ELSE 0

RECURSIVE SubFences(_, _)
\* re.sub(FENCE_REGEX, '', s, flags=re.MULTILINE), scanning from index i:
\* leftmost match first, the two alternatives in order.
SubFences(s, i) ==
  IF i > Len(s) THEN <<>>
  ELSE IF OpenFenceEnd(s, i) # 0 THEN SubFences(s, OpenFenceEnd(s, i))
  ELSE IF CloseFenceEnd(s, i) # 0 THEN SubFences(s, CloseFenceEnd(s, i))
  ELSE <<s[i]>> \o SubFences(s, i + 1)

RECURSIVE SplitComma(_)
\* str.split(',')
SplitComma(s) ==
  IF \E i \in 1..Len(s) : s[i] = ","
  THEN LET i == CHOOSE k \in 1..Len(s) :
                  s[k] = "," /\ \A m \in 1..(k - 1) : s[m] # ","
       IN  <<SubSeq(s, 1, i - 1)>> \o SplitComma(SubSeq(s, i + 1, Len(s)))
  ELSE <<s>>

RECURSIVE ReplaceDoubleSlash(_)
\* str.replace('//', '/'): one left-to-right pass over non-overlapping matches
ReplaceDoubleSlash(s) ==
  IF Len(s) < 2 THEN s
  ELSE IF s[1] = "/" /\ s[2] = "/"
       THEN <<"/">> \o ReplaceDoubleSlash(SubSeq(s, 3, Len(s)))
       ELSE <<s[1]>> \o ReplaceDoubleSlash(Tail(s))

RECURSIVE StripNonEmpty(_)
\* [p.strip() for p in items if p.strip()]
StripNonEmpty(items) ==
  IF items = <<>> THEN <<>>
  ELSE LET p == Strip(Head(items), Whitespace)
       IN  (IF p # <<>> THEN <<p>> ELSE <<>>) \o StripNonEmpty(Tail(items))

RECURSIVE CleanLoopPrepend(_, _)
\* CleanLoop with valid_patterns.insert(0, ...) in the place of append
CleanLoopPrepend(raw, normalize) ==
  IF raw = <<>> THEN <<>>
  ELSE LET cleaned == Strip(Head(raw), QuoteChars)
           kept    == IF normalize THEN ReplaceDoubleSlash(cleaned) ELSE cleaned
       IN  CleanLoopPrepend(Tail(raw), normalize)
             \o (IF cleaned # <<>> THEN <<kept>> ELSE <<>>)

RECURSIVE CleanLoop(_, _)
\* the loop "for pattern in raw_patterns": strip quotes, drop what is empty;
\* normalize tells whether '//' is replaced by '/' (core/gemini_client.py only)
CleanLoop(raw, normalize) ==
  IF raw = <<>> THEN <<>>
  ELSE LET cleaned == Strip(Head(raw), QuoteChars)
           kept    == IF normalize THEN ReplaceDoubleSlash(cleaned) ELSE cleaned
       IN  (IF cleaned # <<>> THEN <<kept>> ELSE <<>>) \o CleanLoop(Tail(raw), normalize)

\* raw_patterns of parse_and_clean_patterns for the input v, a tagged value:
\* [kind |-> "str", val |-> text], [kind |-> "list", val |-> list of texts],
\* or [kind |-> "other", val |-> <<>>] for any other Python object.
RawPatterns(v) ==
  IF v.kind = "str"
  THEN StripNonEmpty(SplitComma(Strip(SubFences(v.val, 1), Whitespace)))
  ELSE StripNonEmpty(v.val)

\* ExcludePatterns.parse_and_clean_patterns of src/main.py (no normalization):
\* ok = FALSE stands for the ValueError.
LegacyParseAndClean(v) ==
  IF v.kind \in {"str", "list"}
  THEN [ok |-> TRUE, patterns |-> CleanLoop(RawPatterns(v), FALSE)]
  ELSE [ok |-> FALSE, patterns |-> <<>>]

\* CoreParseAndClean without the "elif isinstance(v, list)" branch
CoreParseStrOnly(v) ==
  IF v.kind = "str"
  THEN [ok |-> TRUE, patterns |-> CleanLoop(RawPatterns(v), TRUE)]
  ELSE [ok |-> FALSE, patterns |-> <<>>]

\* ExcludePatterns.parse_and_clean_patterns of core/gemini_client.py.
CoreParseAndClean(v) ==
  IF v.kind \in {"str", "list"}
  THEN [ok |-> TRUE, patterns |-> CleanLoop(RawPatterns(v), TRUE)]
  ELSE [ok |-> FALSE, patterns |-> <<>>]

\* the validator of the implementation im
ParseAndClean(im, v) ==
  IF im = "legacy" THEN LegacyParseAndClean(v) ELSE CoreParseAndClean(v)

\* set(list)
ToSet(l) == {l[i] : i \in 1..Len(l)}

\* --------------------------------------------------------------- test data
\* patterns used as manual --exclude-pattern values and in backend answers
PGit   == <<".", "g", "i", "t", "/">>
PNode  == <<"n", "o", "d", "e", "_", "m", "o", "d", "u", "l", "e", "s", "/">>
PCache == <<"*", "*", "/", "_", "_", "p", "y", "c", "a", "c", "h", "e", "_", "_", "/">>
PLog   == <<"*", ".", "l", "o", "g">>

\* the backend answer of the end-to-end example: .git/, node_modules/, **/__pycache__/
TextExample == PGit \o <<",", " ">> \o PNode \o <<",", " ">> \o PCache

\* an empty answer
TextEmpty == <<>>

\* a fenced answer with quoted tokens and a doubled separator:
\* FENCE newline 'b//o/', "*.log" newline FENCE
TextFenced ==
  <<BT, BT, BT, "\n", "'", "b", "/", "/", "o", "/", "'", ",", " ", "\"">>
    \o PLog \o <<"\"", "\n", BT, BT, BT>>

\* an answer whose tokens are only quotes: '', BACKTICK space BACKTICK
TextBlank == <<"'", "'", ",", " ", BT, " ", BT>>

\* the texts the simulated backend may answer with
Texts == {TextExample, TextEmpty, TextFenced, TextBlank}

\* what response.text.strip() hands to ExcludePatterns(patterns=...): a text,
\* or an object that is neither a string nor a list (validation then fails)
Payloads ==
  {[kind |-> "str", val |-> Strip(t, Whitespace)] : t \in Texts}
    \cup {[kind |-> "other", val |-> <<>>]}

\* the lists --exclude-pattern/-e may collect
ManualChoices == {<<>>, <<PLog>>, <<PGit, PLog>>}

\* --retries values explored, the non-positive ones included
RetryChoices == (-1)..MaxRetries

\* ------------------------------------------------------------------- state
VARIABLES
  impl,            \* "legacy" (src/main.py) or "app" (src/src/main.py)
  source,          \* what args.source names: "dir", "file", "missing", "url"
  args,            \* the parsed flags
  envKey,          \* GEMINI_API_KEY is set in the environment
  pc,              \* position of the run
  localKind,       \* kind of local_source_path once resolved: "dir" or "file"
  tempDir,         \* the TemporaryDirectory: "none", "exists", "removed"
  rendered,        \* number of tree renderings performed
  genState,        \* state of the Pattern Generator invocation
  attempt,         \* loop variable of "for attempt in range(retries)"
  trace,           \* backend calls and backoff sleeps, in order
  genResult,       \* what the generator returned
  excludePatterns, \* exclude_patterns (legacy) / self.exclude_patterns (app)
  ingestArgs,      \* exclude_patterns argument of every ingest_async call
  cwd,             \* process working directory: "orig" or "source"
  stderr,          \* kinds of error messages printed
  outcome,         \* how the run ended: "return", "SystemExit", "exception"
  exitStatus,      \* process exit status, -1 while running
  vInput,          \* argument of parse_and_clean_patterns (validator runs)
  validated,       \* what parse_and_clean_patterns returned for vInput
  treeInput,       \* the directory handed to create_directory_tree
  max_depth,       \* its depth bound D
  rendering,       \* the lines create_directory_tree returned
  script,          \* the stubbed backend of a paired run of the generators
  peer             \* what the first generator of a paired run did

vars == <<impl, source, args, envKey, pc, localKind, tempDir, rendered,
          genState, attempt, trace, genResult, excludePatterns, ingestArgs,
          cwd, stderr, outcome, exitStatus, vInput, validated, treeInput,
          max_depth,
          rendering, script, peer>>

\* what a run never writes: its inputs, and the state of the validator and
\* renderer runs
inputVars == <<impl, source, args, envKey, vInput, validated, treeInput,
               max_depth,
               rendering, script, peer>>
genVars   == <<genState, attempt, trace, genResult>>

\* the validator and the renderer are not under test in this run
NoValue == [kind |-> "none", val |-> <<>>]

\* values of genResult
NoneResult  == [tag |-> "None", list |-> <<>>, set |-> {}]
UnsetResult == [tag |-> "unset", list |-> <<>>, set |-> {}]

\* no paired run of the two generators is under way
NoScript == [config |-> "ok", calls |-> <<>>]
NoPeer   == [state |-> "none", trace |-> <<>>, result |-> UnsetResult]

PairIdle ==
  /\ script = NoScript
  /\ peer = NoPeer

PureIdle ==
  /\ PairIdle
  /\ vInput = NoValue
  /\ validated = [ok |-> FALSE, patterns |-> <<>>]
  /\ treeInput = NoValue
  /\ max_depth = 0
  /\ rendering = <<>>

Init ==
  /\ impl \in {"legacy", "app"}
  /\ source \in {"dir", "file", "missing", "url"}
  /\ args \in [api_key : BOOLEAN, no_auto_exclude : BOOLEAN, dry_run : BOOLEAN,
               exclude_pattern : ManualChoices, retries : RetryChoices]
  /\ envKey \in BOOLEAN
  /\ pc = "start"
  /\ localKind = "none"
  /\ tempDir = "none"
  /\ rendered = 0
  /\ genState = "idle"
  /\ attempt = 0
  /\ trace = <<>>
  /\ genResult = UnsetResult
  /\ excludePatterns = {}
  /\ ingestArgs = <<>>
  /\ cwd = "orig"
  /\ stderr = {}
  /\ outcome = "none"
  /\ exitStatus = -1
  /\ PureIdle

\* ------------------------------------------------- orchestrator decisions
\* api_key = args.api_key or os.getenv("GEMINI_API_KEY"): a credential is set
ConfiguredKey(a, e) == a.api_key \/ e

\* src/main.py: use_auto_exclude = not args.no_auto_exclude and bool(api_key)
UseAutoExclude(a, e) == ~a.no_auto_exclude /\ ConfiguredKey(a, e)

\* src/src/main.py __init__: self.gemini_client is set iff config.api_key
HasGeminiClient(a, e) == ConfiguredKey(a, e)

\* Eligible without the test that the source is a directory
EligibleAnyKind(im, a, e, k) ==
  IF im = "legacy"
  THEN UseAutoExclude(a, e)
  ELSE ~a.no_auto_exclude /\ HasGeminiClient(a, e)

\* the run invokes the Pattern Generator for a resolved source of kind k
\*   legacy: use_auto_exclude and directory_tree (Stage 2 clears
\*           use_auto_exclude when the source is not a directory)
\*   app:    run: is_dir(); _generate_exclude_patterns: not
\*           args.no_auto_exclude and self.gemini_client
Eligible(im, a, e, k) ==
  IF im = "legacy"
  THEN UseAutoExclude(a, e) /\ k = "dir"
  ELSE k = "dir" /\ ~a.no_auto_exclude /\ HasGeminiClient(a, e)

\* the run renders the directory tree
\*   legacy: Stage 2, whenever the source is a directory
\*   app:    only inside _generate_auto_exclude_patterns
RendersTree(im, a, e, k) ==
  IF im = "legacy" THEN k = "dir" ELSE Eligible(im, a, e, k)

\* DryRunRequested with the flag ignored
DryRunIgnored(a) == FALSE

\* --dry-run is set
DryRunRequested(a) == a.dry_run

\* "finally: if temp_dir: temp_dir.cleanup()"
Cleanup(t) == IF t = "exists" THEN "removed" ELSE t

\* exclude_patterns argument of ingest_async: "x if x else None"
Forwarded(S) ==
  IF S # {} THEN [none |-> FALSE, set |-> S] ELSE [none |-> TRUE, set |-> {}]

\* clone_repo of src/main.py for the outcome c of running git: "ok",
\* "nonzero" (return code), "nogit" (FileNotFoundError), "error" (other)
LegacyCloneRepo(c) == IF c = "ok" THEN "True" ELSE "False"

\* RepositoryHandler.clone_repo: the module never imports sys, so every
\* failure branch raises NameError on sys.stderr, also inside the handlers
CoreCloneRepo(c) == IF c = "ok" THEN "True" ELSE "NameError"

CloneRepo(im, c) == IF im = "legacy" THEN LegacyCloneRepo(c) ELSE CoreCloneRepo(c)

CloneOutcomes == {"ok", "nonzero", "nogit", "error"}

\* ---------------------------------------------------- Stage 1: the source
\* _prepare_source / Stage 1 for a local path
PrepareLocal ==
  /\ pc = "start"
  /\ source # "url"
  /\ IF source = "missing"
     THEN /\ stderr' = stderr \cup {"missing_path"}
          /\ outcome' = "SystemExit"
          /\ pc' = "top"
          /\ UNCHANGED localKind
     ELSE /\ localKind' = source
          /\ pc' = "prepared"
          /\ UNCHANGED <<stderr, outcome>>
  /\ UNCHANGED <<inputVars, tempDir, rendered, genVars, excludePatterns,
                 ingestArgs, cwd, exitStatus>>

\* _prepare_source / Stage 1 for a repository URL, up to the first await of
\* clone_repo: the temporary directory is created and git is started
CreateTempDirectory ==
  /\ pc = "start"
  /\ source = "url"
  /\ tempDir' = "exists"
  /\ pc' = "cloning"
  /\ UNCHANGED <<inputVars, localKind, rendered, genVars, excludePatterns,
                 ingestArgs, cwd, stderr, outcome, exitStatus>>

\* the rest of Stage 1 for a repository URL: git has ended with the outcome
\* c, clone_repo returns or raises and the caller acts on it
PrepareClone(c) ==
  /\ pc = "cloning"
  /\ LET r == CloneRepo(impl, c)
     IN  CASE r = "True" ->
                /\ tempDir' = tempDir
                /\ localKind' = "dir"
                /\ pc' = "prepared"
                /\ UNCHANGED <<stderr, outcome>>
           [] r = "False" ->
                \* legacy: sys.exit(1) inside try/finally; app: cleanup()
                \* then sys.exit(1)
                /\ tempDir' = "removed"
                /\ stderr' = stderr \cup {"clone"}
                /\ outcome' = "SystemExit"
                /\ pc' = "top"
                /\ UNCHANGED localKind
           [] OTHER ->
                \* clone_repo raised: legacy is inside try/finally, the app
                \* calls _prepare_source before its try block
                /\ tempDir' = IF impl = "legacy" THEN "removed" ELSE tempDir
                /\ outcome' = "exception"
                /\ pc' = "top"
                /\ UNCHANGED <<localKind, stderr>>
  /\ UNCHANGED <<inputVars, rendered, genVars, excludePatterns, ingestArgs,
                 cwd, exitStatus>>

\* ------------------------------------- Stage 2/3: tree and manual patterns
\* legacy Stage 2 and the start of Stage 3; app run() up to the generator
AnalyzeSource ==
  /\ pc = "prepared"
  /\ rendered' = IF RendersTree(impl, args, envKey, localKind)
                 THEN rendered + 1 ELSE rendered
  /\ IF Eligible(impl, args, envKey, localKind)
     THEN /\ pc' = "generating"
          /\ genState' = "CONFIGURING"
          /\ excludePatterns' = IF impl = "legacy"
                                THEN ToSet(args.exclude_pattern)
                                ELSE excludePatterns
     ELSE /\ pc' = "merged"
          /\ genState' = genState
          \* app: self.exclude_patterns is assigned only when is_dir()
          /\ excludePatterns' = IF impl = "legacy" \/ localKind = "dir"
                                THEN ToSet(args.exclude_pattern)
                                ELSE excludePatterns
  /\ UNCHANGED <<inputVars, localKind, tempDir, attempt, trace, genResult,
                 ingestArgs, cwd, stderr, outcome, exitStatus>>

\* create_directory_tree raises (a stat outside its try blocks fails)
RenderRaises ==
  /\ pc = "prepared"
  /\ RendersTree(impl, args, envKey, localKind)
  /\ rendered' = rendered + 1
  /\ tempDir' = Cleanup(tempDir)
  /\ outcome' = "exception"
  /\ pc' = "top"
  /\ UNCHANGED <<inputVars, localKind, genVars, excludePatterns, ingestArgs,
                 cwd, stderr, exitStatus>>

\* ------------------------------------------------------ Pattern Generator
\* terminal states of one invocation (RAISED: an exception left it)
Terminal == {"SUCCEEDED", "ABORTED", "FAILED"}

ConfigOutcomes == {"ok", "configure_raises", "model_raises"}

\* the configuration step for the outcome c: "ok", "None" (the invocation
\* returns None) or "raise" (the exception leaves the generator)
\*   app:    _configure_api wraps genai.configure and GenerativeModel
\*   legacy: only genai.configure is inside the try block
ConfigureApi(im, c) ==
  IF c = "ok" THEN "ok"
  ELSE IF im = "app" \/ c = "configure_raises" THEN "None"
  ELSE "raise"

\* Backoff with a constant delay instead of the doubling one
BackoffConstant(a) == 1

\* asyncio.sleep(2 ** attempt), attempt being the 0-based loop variable
Backoff(a) == 2 ^ a

\* SleepsAfter without the test for the last attempt
SleepsAlways(a, r) == TRUE

\* "if attempt < retries - 1": a sleep follows the failed attempt a
SleepsAfter(a, r) == a < r - 1

\* the loop "for attempt in range(retries)" has an iteration a
InRange(a, r) == a < r

\* state after the iteration a ended without return or break
AfterAttempt(a, r) == IF InRange(a + 1, r) THEN "ATTEMPTING" ELSE "FAILED"

\* what the generator prints on stderr when the loop is left in state st:
\* "Failed to generate valid exclude patterns ..." after the loop ran out or
\* was broken out of, nothing while it goes on or when it returned patterns
LoopExitPrints(st) ==
  IF st \in {"FAILED", "ABORTED"} THEN {"generation_failed"} ELSE {}

\* record of one backend call / one sleep in trace; p is the payload of the
\* response when the call returned one
CallEvent(n, b) == [e |-> "call", n |-> n, b |-> b, p |-> NoValue]
SleepEvent(d)   == [e |-> "sleep", n |-> d, b |-> "sleep", p |-> NoValue]

\* record of a backend call that returned the response payload
ResponseEvent(n, b, payload) == [CallEvent(n, b) EXCEPT !.p = payload]

\* what the validated answer means for the loop
AnswerKind(v) ==
  IF ~v.ok THEN "invalid"
  ELSE IF v.patterns # <<>> THEN "patterns"
  ELSE "empty"

\* SuccessResult that keeps the first pattern only
SuccessResultFirstOnly(im, v) ==
  IF im = "legacy"
  THEN [tag |-> "ExcludePatterns", list |-> <<Head(v.patterns)>>, set |-> {}]
  ELSE [tag |-> "set", list |-> <<>>, set |-> {Head(v.patterns)}]

\* value returned on success: legacy returns the ExcludePatterns object,
\* the app returns set(parsed_patterns.patterns)
SuccessResult(im, v) ==
  IF im = "legacy"
  THEN [tag |-> "ExcludePatterns", list |-> v.patterns, set |-> {}]
  ELSE [tag |-> "set", list |-> <<>>, set |-> ToSet(v.patterns)]

\* genai.configure / GenerativeModel(...), then entry into the loop
Configure(c) ==
  /\ pc = "generating"
  /\ genState = "CONFIGURING"
  /\ LET r == ConfigureApi(impl, c)
     IN  CASE r = "ok" ->
                \* an empty range(retries) falls through to the line
                \* after the loop
                /\ genState' = IF InRange(0, args.retries)
                               THEN "ATTEMPTING" ELSE "FAILED"
                /\ genResult' = IF InRange(0, args.retries)
                                THEN genResult ELSE NoneResult
                /\ stderr' = stderr \cup LoopExitPrints(IF InRange(0, args.retries)
                                                        THEN "ATTEMPTING" ELSE "FAILED")
           [] r = "None" ->
                \* "Error configuring Gemini API: ..." and return None
                /\ genState' = "ABORTED"
                /\ genResult' = NoneResult
                /\ stderr' = stderr \cup {"config_error"}
           [] OTHER ->
                /\ genState' = "RAISED"
                /\ genResult' = genResult
                /\ stderr' = stderr
  /\ attempt' = 0
  /\ UNCHANGED <<inputVars, pc, localKind, tempDir, rendered, trace,
                 excludePatterns, ingestArgs, cwd, outcome, exitStatus>>

\* AttemptResponse with the backoff of a failed call after an answer
\* without patterns
AttemptResponseBacksOff(payload) ==
  /\ pc = "generating"
  /\ genState = "ATTEMPTING"
  /\ LET v == ParseAndClean(impl, payload)
         k == AnswerKind(v)
     IN  /\ trace' = Append(trace, ResponseEvent(attempt + 1, k, payload))
                       \o (IF k # "patterns" /\ SleepsAfter(attempt, args.retries)
                           THEN <<SleepEvent(Backoff(attempt))>> ELSE <<>>)
         /\ IF k = "patterns"
            THEN /\ genState' = "SUCCEEDED"
                 /\ genResult' = SuccessResult(impl, v)
                 /\ attempt' = attempt
                 /\ stderr' = stderr
            ELSE /\ genState' = AfterAttempt(attempt, args.retries)
                 /\ genResult' = IF AfterAttempt(attempt, args.retries) = "FAILED"
                                 THEN NoneResult ELSE genResult
                 /\ attempt' = attempt + 1
                 /\ stderr' = stderr
                      \cup LoopExitPrints(AfterAttempt(attempt, args.retries))
  /\ UNCHANGED <<inputVars, pc, localKind, tempDir, rendered, excludePatterns,
                 ingestArgs, cwd, outcome, exitStatus>>

\* one loop iteration in which generate_content returns: the answer is
\* validated; patterns end the invocation, anything else goes on
AttemptResponse(payload) ==
  /\ pc = "generating"
  /\ genState = "ATTEMPTING"
  /\ LET v == ParseAndClean(impl, payload)
         k == AnswerKind(v)
     IN  /\ trace' = Append(trace, ResponseEvent(attempt + 1, k, payload))
         /\ IF k = "patterns"
            THEN /\ genState' = "SUCCEEDED"
                 /\ genResult' = SuccessResult(impl, v)
                 /\ attempt' = attempt
                 /\ stderr' = stderr
            ELSE /\ genState' = AfterAttempt(attempt, args.retries)
                 /\ genResult' = IF AfterAttempt(attempt, args.retries) = "FAILED"
                                 THEN NoneResult ELSE genResult
                 /\ attempt' = attempt + 1
                 /\ stderr' = stderr
                      \cup LoopExitPrints(AfterAttempt(attempt, args.retries))
  /\ UNCHANGED <<inputVars, pc, localKind, tempDir, rendered, excludePatterns,
                 ingestArgs, cwd, outcome, exitStatus>>

\* AttemptBlocked with "continue" in the place of "break"
AttemptBlockedContinues ==
  /\ pc = "generating"
  /\ genState = "ATTEMPTING"
  /\ trace' = Append(trace, CallEvent(attempt + 1, "blocked"))
  /\ genState' = AfterAttempt(attempt, args.retries)
  /\ genResult' = IF AfterAttempt(attempt, args.retries) = "FAILED"
                  THEN NoneResult ELSE genResult
  /\ attempt' = attempt + 1
  /\ stderr' = stderr \cup {"blocked"}
                \cup LoopExitPrints(AfterAttempt(attempt, args.retries))
  /\ UNCHANGED <<inputVars, pc, localKind, tempDir, rendered,
                 excludePatterns, ingestArgs, cwd, outcome, exitStatus>>

\* one loop iteration in which the backend raises BlockedPromptException
AttemptBlocked ==
  /\ pc = "generating"
  /\ genState = "ATTEMPTING"
  /\ trace' = Append(trace, CallEvent(attempt + 1, "blocked"))
  /\ genState' = "ABORTED"
  /\ genResult' = NoneResult
  /\ stderr' = stderr \cup {"blocked"} \cup LoopExitPrints("ABORTED")
  /\ UNCHANGED <<inputVars, pc, localKind, tempDir, rendered, attempt,
                 excludePatterns, ingestArgs, cwd, outcome, exitStatus>>

\* one loop iteration in which the backend raises any other exception
AttemptError ==
  /\ pc = "generating"
  /\ genState = "ATTEMPTING"
  /\ trace' = Append(trace, CallEvent(attempt + 1, "error"))
                \o (IF SleepsAfter(attempt, args.retries)
                    THEN <<SleepEvent(Backoff(attempt))>> ELSE <<>>)
  /\ genState' = AfterAttempt(attempt, args.retries)
  /\ genResult' = IF AfterAttempt(attempt, args.retries) = "FAILED"
                  THEN NoneResult ELSE genResult
  /\ attempt' = attempt + 1
  /\ stderr' = stderr \cup {"api_error"}
                \cup LoopExitPrints(AfterAttempt(attempt, args.retries))
  /\ UNCHANGED <<inputVars, pc, localKind, tempDir, rendered, excludePatterns,
                 ingestArgs, cwd, outcome, exitStatus>>

\* ------------------------------------------------- Stage 3: merge patterns
\* the patterns the orchestrator takes from the generator's return value
AutoPatterns(res) ==
  IF res.tag = "ExcludePatterns" THEN ToSet(res.list)
  ELSE IF res.tag = "set" THEN res.set
  ELSE {}

\* legacy: exclude_patterns.update(unique_auto_patterns)
\* app:    patterns = set(args.exclude_pattern or []); patterns.update(auto)
MergePatterns ==
  /\ pc = "generating"
  /\ genState \in Terminal
  /\ excludePatterns' =
       IF impl = "legacy"
       THEN excludePatterns \cup AutoPatterns(genResult)
       ELSE ToSet(args.exclude_pattern) \cup AutoPatterns(genResult)
  /\ pc' = "merged"
  /\ UNCHANGED <<inputVars, localKind, tempDir, rendered, genVars, ingestArgs,
                 cwd, stderr, outcome, exitStatus>>

\* an exception left the generator: it passes through the finally block
GeneratorRaises ==
  /\ pc = "generating"
  /\ genState = "RAISED"
  /\ tempDir' = Cleanup(tempDir)
  /\ outcome' = "exception"
  /\ pc' = "top"
  /\ UNCHANGED <<inputVars, localKind, rendered, genVars, excludePatterns,
                 ingestArgs, cwd, stderr, exitStatus>>

\* ------------------------------------------- Stage 4: dry run or ingestion
\* "if args.dry_run: ... return", then the finally block
DryRunReturn ==
  /\ pc = "merged"
  /\ DryRunRequested(args)
  /\ tempDir' = Cleanup(tempDir)
  /\ outcome' = "return"
  /\ pc' = "top"
  /\ UNCHANGED <<inputVars, localKind, rendered, genVars, excludePatterns,
                 ingestArgs, cwd, stderr, exitStatus>>

\* the call of ingest_async; the app changes into a directory source first
StartIngest ==
  /\ pc = "merged"
  /\ ~DryRunRequested(args)
  /\ ingestArgs' = Append(ingestArgs, Forwarded(excludePatterns))
  /\ cwd' = IF impl = "app" /\ localKind = "dir" THEN "source" ELSE cwd
  /\ pc' = "ingesting"
  /\ UNCHANGED <<inputVars, localKind, tempDir, rendered, genVars,
                 excludePatterns, stderr, outcome, exitStatus>>

\* ingest_async returns: summary printed, finally blocks run
IngestReturns ==
  /\ pc = "ingesting"
  /\ cwd' = "orig"
  /\ tempDir' = Cleanup(tempDir)
  /\ outcome' = "return"
  /\ pc' = "top"
  /\ UNCHANGED <<inputVars, localKind, rendered, genVars, excludePatterns,
                 ingestArgs, stderr, exitStatus>>

\* how the run ends when ingest_async raises
\*   legacy: both handlers print and call sys.exit(1)
\*   app:    _execute_gitingest prints and re-raises
IngestErrorOutcome(im) == IF im = "legacy" THEN "SystemExit" ELSE "exception"

\* IngestRaises without the os.chdir(original_cwd) of the finally block
IngestRaisesNoRestore ==
  /\ pc = "ingesting"
  /\ stderr' = stderr \cup {"ingest_error"}
  /\ tempDir' = Cleanup(tempDir)
  /\ outcome' = IngestErrorOutcome(impl)
  /\ pc' = "top"
  /\ UNCHANGED <<inputVars, localKind, rendered, genVars, excludePatterns,
                 ingestArgs, cwd, exitStatus>>

\* ingest_async raises; the finally blocks run
IngestRaises ==
  /\ pc = "ingesting"
  /\ stderr' = stderr \cup {"ingest_error"}
  /\ cwd' = "orig"
  /\ tempDir' = Cleanup(tempDir)
  /\ outcome' = IngestErrorOutcome(impl)
  /\ pc' = "top"
  /\ UNCHANGED <<inputVars, localKind, rendered, genVars, excludePatterns,
                 ingestArgs, exitStatus>>

\* ------------------------------------------------------------- top level
\* exit status of the process for the way o the run ended
\*   legacy: asyncio.run(main()) lets an exception escape (status 1)
\*   app:    main() catches Exception, prints it and returns (status 0)
TopLevelStatus(im, o) ==
  IF o = "SystemExit" THEN 1
  ELSE IF o = "exception" /\ im = "legacy" THEN 1
  ELSE 0

\* the process ends; a TemporaryDirectory never cleaned up explicitly is
\* removed by its finalizer when the object is released
Terminate ==
  /\ pc = "top"
  /\ exitStatus' = TopLevelStatus(impl, outcome)
  /\ stderr' = IF outcome = "exception"
               THEN stderr \cup {IF impl = "legacy" THEN "traceback" ELSE "top_level"}
               ELSE stderr
  /\ tempDir' = Cleanup(tempDir)
  /\ pc' = "done"
  /\ UNCHANGED <<inputVars, localKind, rendered, genVars, excludePatterns,
                 ingestArgs, cwd, outcome>>

Next ==
  \/ PrepareLocal
  \/ CreateTempDirectory
  \/ \E c \in CloneOutcomes : PrepareClone(c)
  \/ AnalyzeSource
  \/ RenderRaises
  \/ \E c \in ConfigOutcomes : Configure(c)
  \/ \E payload \in Payloads : AttemptResponse(payload)
  \/ AttemptBlocked
  \/ AttemptError
  \/ MergePatterns
  \/ GeneratorRaises
  \/ DryRunReturn
  \/ StartIngest
  \/ IngestReturns
  \/ IngestRaises
  \/ Terminate

Spec == Init /\ [][Next]_vars

\* ------------------------------------------------------------------ views
\* the backend calls / the backoff sleeps of the invocation, in order
Calls(t)  == SelectSeq(t, LAMBDA ev : ev.e = "call")
Sleeps(t) == SelectSeq(t, LAMBDA ev : ev.e = "sleep")

\* the invocation ended in the configuration step
ConfigFailed ==
  genState = "RAISED" \/ (genState = "ABORTED" /\ trace = <<>>)

\* every backend call of the invocation raised a transient error
AllCallsTransient ==
  \A i \in 1..Len(trace) : trace[i].e = "call" => trace[i].b = "error"

\* ----------------------------------------------------------------- claims
\* C1: when the backend raises a transient error on every call and the
\* retry budget R is at least 1, a finished invocation has made exactly R
\* backend calls, a sleep lies between each two consecutive calls and
\* nowhere else, the sleeps are strictly increasing, and the result is None.
C1_TransientExhaustsBudget ==
  (genState \in Terminal /\ ~ConfigFailed /\ args.retries >= 1 /\ AllCallsTransient)
    => /\ Len(Calls(trace)) = args.retries
       /\ Len(trace) = 2 * args.retries - 1
       /\ \A i \in 1..Len(trace) :
            trace[i].e = (IF i % 2 = 1 THEN "call" ELSE "sleep")
       /\ \A i, j \in 1..Len(Sleeps(trace)) :
            i < j => Sleeps(trace)[i].n < Sleeps(trace)[j].n
       /\ genState = "FAILED"
       /\ genResult = NoneResult

\* C1 witness: a finished invocation with budget 3 whose three calls all
\* raised a transient error.
C1_Witness ==
  /\ genState = "FAILED"
  /\ args.retries = 3
  /\ AllCallsTransient
  /\ Len(Calls(trace)) = 3
  /\ Len(Sleeps(trace)) = 2

\* C2: a content-safety refusal ends the invocation at once: the refused
\* call is the last event of the invocation (no call and no sleep follows
\* it), the invocation is ABORTED and returns None; a refusal on the first
\* attempt therefore leaves exactly one backend call.
C2_RefusalStops ==
  \A i \in 1..Len(trace) :
    trace[i].b = "blocked"
      => /\ i = Len(trace)
         /\ genState = "ABORTED"
         /\ genResult = NoneResult
         /\ (trace[i].n = 1 => Len(Calls(trace)) = 1)

\* C2 witness: a finished run whose generator was refused on a later
\* attempt, after an earlier attempt had failed.
C2_Witness ==
  /\ pc = "done"
  /\ Len(trace) >= 2
  /\ trace[Len(trace)].b = "blocked"
  /\ trace[Len(trace)].n >= 2

\* C3: no exception escapes an invocation of the Pattern Generator, and a
\* configuration failure ends it ABORTED with no backend call and result None.
C3_NoExceptionEscapes ==
  /\ genState # "RAISED"
  /\ ConfigFailed => (genState = "ABORTED" /\ Calls(trace) = <<>>
                        /\ genResult = NoneResult)

\* C4: an invocation that has ended has returned either None or a non-empty
\* pattern set, never an empty set and nothing else.
C4_NonEmptyOrNone ==
  (genState \in Terminal \cup {"RAISED"})
    => \/ genResult = NoneResult
       \/ /\ genResult.tag \in {"ExcludePatterns", "set"}
          /\ AutoPatterns(genResult) # {}

\* C5: every call of the ingestion collaborator receives as exclude set the
\* union of the manual patterns and the generator's output (empty when the
\* generator did not run or failed); for the example answer and no manual
\* patterns that is {.git/, node_modules/, **/__pycache__/}.
C5_ForwardedIsUnion ==
  \A i \in 1..Len(ingestArgs) :
    /\ ingestArgs[i].set = ToSet(args.exclude_pattern) \cup AutoPatterns(genResult)
    /\ ingestArgs[i].none = (ingestArgs[i].set = {})

\* C6: with --dry-run the ingestion collaborator is never invoked.
C6_DryRunNeverIngests ==
  args.dry_run => (ingestArgs = <<>> /\ pc # "ingesting")

\* C6 witness: a dry run that came to its end after the generator succeeded.
C6_Witness ==
  /\ args.dry_run
  /\ pc = "done"
  /\ genState = "SUCCEEDED"
  /\ outcome = "return"

\* C7: when the run has ended, a temporary clone directory it created has
\* been removed, whatever the exit path.
C7_TempDirRemoved ==
  pc = "top" => tempDir # "exists"

\* C8: when the ingestion collaborator raised, the error is reported and the
\* process ends with a non-zero exit status.
C8_IngestErrorNonZeroExit ==
  ("ingest_error" \in stderr /\ pc = "done") => exitStatus # 0

\* C9: when the source cannot be resolved (missing local path, failed
\* clone) the process exits non-zero, having rendered no tree, called no
\* backend and called no ingestion.
C9_UnresolvedSourceExits ==
  (pc = "done" /\ localKind = "none")
    => /\ exitStatus # 0
       /\ rendered = 0
       /\ trace = <<>>
       /\ ingestArgs = <<>>

\* C10: the backend is called only when a credential is configured,
\* --no-auto-exclude is not set and the resolved source is a directory.
C10_BackendOnlyIfEligible ==
  Calls(trace) # <<>>
    => /\ ConfiguredKey(args, envKey)
       /\ ~args.no_auto_exclude
       /\ localKind = "dir"

\* C10 witness: a finished run in which the backend was called.
C10_Witness ==
  /\ pc = "done"
  /\ Len(Calls(trace)) >= 2
  /\ localKind = "dir"

\* C11: when the generator has ended without patterns (budget exhausted,
\* refusal, configuration failure) the run goes on: the exclude set is
\* exactly the manual patterns, and the run is at the dry-run display or has
\* called the ingestion collaborator with that set.
C11_ProceedsWithManualOnly ==
  (genState \in {"FAILED", "ABORTED", "RAISED"} /\ pc # "generating")
    => /\ excludePatterns = ToSet(args.exclude_pattern)
       /\ \/ pc = "merged"
          \/ args.dry_run /\ outcome \in {"none", "return"}
          \/ /\ Len(ingestArgs) = 1
             /\ ingestArgs[1] = Forwarded(ToSet(args.exclude_pattern))

\* C20: a transient error on attempt i < R is followed at once by a sleep
\* of 2^(i-1) seconds and only then by attempt i+1; a transient error on the
\* last attempt R is followed by nothing: the invocation ends FAILED.
C20_BackoffSchedule ==
  \A k \in 1..Len(trace) :
    (trace[k].e = "call" /\ trace[k].b = "error")
      => IF trace[k].n < args.retries
         THEN /\ k < Len(trace)
              /\ trace[k + 1].e = "sleep"
              /\ trace[k + 1].n = 2 ^ (trace[k].n - 1)
              /\ k + 2 <= Len(trace)
                   => (trace[k + 2].e = "call" /\ trace[k + 2].n = trace[k].n + 1)
         ELSE /\ k = Len(trace)
              /\ genState = "FAILED"

\* C20 witness: a finished invocation with budget 3 that slept 1 and 2
\* seconds after its first two attempts and not after the third.
C20_Witness ==
  /\ args.retries = 3
  /\ genState = "FAILED"
  /\ Len(trace) = 5
  /\ trace[2] = SleepEvent(1)
  /\ trace[4] = SleepEvent(2)
  /\ trace[5].b = "error"

\* C21: a call whose answer validates to an empty list or fails validation
\* uses up its attempt and is never followed by a sleep: the next event, if
\* any, is the call of the next attempt; while none has come the loop stands
\* at the next attempt, or has ended FAILED when the attempt was the last.
C21_NoBackoffAfterEmptyOrInvalid ==
  \A k \in 1..Len(trace) :
    (trace[k].e = "call" /\ trace[k].b \in {"empty", "invalid"})
      => /\ k < Len(trace)
              => /\ trace[k + 1].e = "call"
                 /\ trace[k + 1].n = trace[k].n + 1
                 /\ trace[k].n < args.retries
         /\ k = Len(trace)
              => IF trace[k].n < args.retries
                 THEN genState = "ATTEMPTING" /\ attempt = trace[k].n
                 ELSE genState = "FAILED" /\ genResult = NoneResult

\* C21 witness: an empty answer, then an answer that fails validation, then
\* a third call, with no sleep anywhere.
C21_Witness ==
  /\ Len(trace) = 3
  /\ trace[1].b = "empty"
  /\ trace[2].b = "invalid"
  /\ trace[3].e = "call"
  /\ trace[3].n = 3

\* C22: a call whose answer validates to a non-empty pattern list is the
\* last event of its invocation, no earlier call had such an answer, the
\* invocation is SUCCEEDED and what it returned is exactly the set of the
\* patterns validated from that answer.
C22_FirstSuccessIsTerminal ==
  /\ \A k \in 1..Len(trace) :
       trace[k].b = "patterns"
         => /\ k = Len(trace)
            /\ genState = "SUCCEEDED"
            /\ genResult.tag \in {"ExcludePatterns", "set"}
            /\ AutoPatterns(genResult)
                 = ToSet(ParseAndClean(impl, trace[k].p).patterns)
            /\ AutoPatterns(genResult) # {}
  /\ genState = "SUCCEEDED"
       => (trace # <<>> /\ trace[Len(trace)].b = "patterns")

\* C22 witness: a finished run whose generator succeeded on its third
\* attempt with the fenced answer, after a transient error and an empty
\* answer.
C22_Witness ==
  /\ pc = "done"
  /\ genState = "SUCCEEDED"
  /\ Len(Calls(trace)) = 3
  /\ trace[1].b = "error"
  /\ trace[Len(trace)].p = [kind |-> "str", val |-> Strip(TextFenced, Whitespace)]

\* Every step of a run is taken once it can be: the event loop runs the
\* coroutine on, a sleep ends, a backend call returns or raises.
SpecLive == Spec /\ WF_vars(Next)

\* max(R, 0)
CallBudget(r) == IF r > 0 THEN r ELSE 0

\* the invocation has ended as C23 has it: in a terminal state, and FAILED
\* with the result None when the loop was entered and no attempt succeeded
\* or was refused
EndedAsClaimed ==
  /\ genState \in Terminal
  /\ (~ConfigFailed
        /\ \A k \in 1..Len(trace) : trace[k].b \notin {"patterns", "blocked"})
       => (genState = "FAILED" /\ genResult = NoneResult)

\* C23: an invocation never makes more than max(R, 0) backend calls, and
\* every invocation that has begun comes to an end in SUCCEEDED, ABORTED or
\* FAILED, FAILED with the result None when no attempt succeeded or was
\* refused; it never ends with an exception.
C23_InvocationTerminates ==
  /\ [](Len(Calls(trace)) <= CallBudget(args.retries))
  /\ [](genState = "CONFIGURING" => <>EndedAsClaimed)

\* C26: the working directory is the source directory only while the
\* ingestion call of src/src/main.py on a directory source is in progress, and
\* it is then; before the call and after it returned or raised, and all
\* through a call on a single-file source, it is the original one.
C26_WorkingDirectoryRestored ==
  /\ cwd = "source" <=> (pc = "ingesting" /\ impl = "app" /\ localKind = "dir")
  /\ pc # "ingesting" => cwd = "orig"

\* C26 witness: _execute_gitingest changed into a cloned directory, the
\* ingestion raised, and the run has ended in the original directory.
C26_Witness ==
  /\ impl = "app"
  /\ source = "url"
  /\ localKind = "dir"
  /\ pc = "top"
  /\ "ingest_error" \in stderr
  /\ outcome = "exception"
  /\ cwd = "orig"

\* ------------------------------------- the two generators, side by side
\* A paired run hands the same tree, credential and retry budget first to
\* generate_exclude_patterns of src/main.py, then to generate_patterns of
\* core/gemini_client.py, with a backend stub that behaves by the script:
\* one outcome of the configuration step and one behaviour for each attempt.

\* the backend raises BlockedPromptException / another exception
Blocked  == [kind |-> "blocked", val |-> <<>>]
Failing  == [kind |-> "error", val |-> <<>>]

\* what the stub may do on one attempt: answer with a payload, refuse, fail
Behaviours == Payloads \cup {Blocked, Failing}

Scripts == [config : ConfigOutcomes, calls : [1..MaxRetries -> Behaviours]]

PairInit ==
  /\ impl = "legacy"
  /\ source = "dir"
  /\ args \in [api_key : {TRUE}, no_auto_exclude : {FALSE}, dry_run : {FALSE},
               exclude_pattern : {<<>>}, retries : RetryChoices]
  /\ envKey = FALSE
  /\ pc = "generating"
  /\ localKind = "dir"
  /\ tempDir = "none"
  /\ rendered = 1
  /\ genState = "CONFIGURING"
  /\ attempt = 0
  /\ trace = <<>>
  /\ genResult = UnsetResult
  /\ excludePatterns = {}
  /\ ingestArgs = <<>>
  /\ cwd = "orig"
  /\ stderr = {}
  /\ outcome = "none"
  /\ exitStatus = -1
  /\ script \in Scripts
  /\ peer = NoPeer
  /\ vInput = NoValue
  /\ validated = [ok |-> FALSE, patterns |-> <<>>]
  /\ treeInput = NoValue
  /\ max_depth = 0
  /\ rendering = <<>>

\* the behaviour of the stub on the attempt the loop stands at
NextBehaviour == script.calls[attempt + 1]

\* the steps of the generator, with the stub in the place of the backend
ScriptedConfigure == Configure(script.config)

ScriptedResponse ==
  /\ genState = "ATTEMPTING"
  /\ \E payload \in Payloads :
       /\ payload = NextBehaviour
       /\ AttemptResponse(payload)

ScriptedBlocked ==
  /\ genState = "ATTEMPTING"
  /\ NextBehaviour = Blocked
  /\ AttemptBlocked

ScriptedError ==
  /\ genState = "ATTEMPTING"
  /\ NextBehaviour = Failing
  /\ AttemptError

\* the invocation of src/main.py is over: what it did is kept, and the same
\* arguments go to a fresh invocation of core/gemini_client.py
SecondInvocation ==
  /\ impl = "legacy"
  /\ pc = "generating"
  /\ genState \in Terminal \cup {"RAISED"}
  /\ peer' = [state |-> genState, trace |-> trace, result |-> genResult]
  /\ impl' = "app"
  /\ genState' = "CONFIGURING"
  /\ attempt' = 0
  /\ trace' = <<>>
  /\ genResult' = UnsetResult
  /\ UNCHANGED <<source, args, envKey, pc, localKind, tempDir, rendered,
                 excludePatterns, ingestArgs, cwd, stderr, outcome, exitStatus,
                 script,
                 vInput, validated, treeInput, max_depth, rendering>>

PairNext ==
  \/ ScriptedConfigure
  \/ ScriptedResponse
  \/ ScriptedBlocked
  \/ ScriptedError
  \/ SecondInvocation

SpecPair == PairInit /\ [][PairNext]_vars

\* how an invocation that ended in state st after the events t ended for
\* its caller: success on an attempt, failure (None), or an exception
Outcome(st, t) ==
  IF st = "SUCCEEDED" THEN [kind |-> "success", attempt |-> t[Len(t)].n]
  ELSE IF st = "RAISED" THEN [kind |-> "exception", attempt |-> 0]
  ELSE [kind |-> "failure", attempt |-> 0]

\* C27: driven by the same stub and the same R, the two generators make the
\* same number of backend calls, sleep for the same sequence of delays and
\* end the same way: failure, or success on the same attempt.
C27_GeneratorsEquivalent ==
  (impl = "app" /\ genState \in Terminal \cup {"RAISED"})
    => /\ Len(Calls(trace)) = Len(Calls(peer.trace))
       /\ Sleeps(trace) = Sleeps(peer.trace)
       /\ Outcome(genState, trace) = Outcome(peer.state, peer.trace)

\* ------------------------------------------------ Pattern Validator runs
\* characters of the texts handed to the validator
ValidatorAlphabet == {"a", ",", "'", " ", "/", "\t"}

\* characters of the items of a list handed to the validator
ItemAlphabet == {"a", "'", " "}

\* all texts over the alphabet A of length at most n
TextsUpTo(A, n) == UNION {[1..k -> A] : k \in 0..n}

\* an opening fence line with a language tag, and a closing fence line
FenceOpen  == <<BT, BT, BT, "p", "y", "\n">>
FenceClose == <<"\n", BT, BT, BT>>

\* the string arguments: a body, bare or inside fence lines
ValidatorTexts ==
  {pre \o body \o suf : pre \in {<<>>, FenceOpen},
                        body \in TextsUpTo(ValidatorAlphabet, MaxBodyLen),
                        suf \in {<<>>, FenceClose}}

\* the item lists; an item is given by its text str(p)
ValidatorLists ==
  UNION {[1..k -> TextsUpTo(ItemAlphabet, MaxItemLen)] : k \in 0..MaxListLen}

\* the arguments of parse_and_clean_patterns: a str, a list, a tuple (a
\* sequence that is not a list), or an object that is none of these
ValidatorInputs ==
  {[kind |-> "str", val |-> t] : t \in ValidatorTexts}
    \cup {[kind |-> "list", val |-> l] : l \in ValidatorLists}
    \cup {[kind |-> "tuple", val |-> l] : l \in ValidatorLists}
    \cup {[kind |-> "other", val |-> <<>>]}

\* the variables of a run, at rest
RunIdle ==
  /\ PairIdle
  /\ source = "dir"
  /\ args = [api_key |-> FALSE, no_auto_exclude |-> FALSE, dry_run |-> FALSE,
             exclude_pattern |-> <<>>, retries |-> 3]
  /\ envKey = FALSE
  /\ localKind = "none"
  /\ tempDir = "none"
  /\ rendered = 0
  /\ genState = "idle"
  /\ attempt = 0
  /\ trace = <<>>
  /\ genResult = UnsetResult
  /\ excludePatterns = {}
  /\ ingestArgs = <<>>
  /\ cwd = "orig"
  /\ stderr = {}
  /\ outcome = "none"
  /\ exitStatus = -1

runVars == <<source, args, envKey, localKind, tempDir, rendered, genVars,
             excludePatterns, ingestArgs, cwd, stderr, outcome, exitStatus,
             script, peer>>

ValidatorInit ==
  /\ impl \in {"legacy", "app"}
  /\ pc = "v_input"
  /\ vInput \in ValidatorInputs
  /\ validated = [ok |-> FALSE, patterns |-> <<>>]
  /\ treeInput = NoValue
  /\ max_depth = 0
  /\ rendering = <<>>
  /\ RunIdle

\* ExcludePatterns(patterns=vInput): the field validator runs
Validate ==
  /\ pc = "v_input"
  /\ validated' = ParseAndClean(impl, vInput)
  /\ pc' = "v_done"
  /\ UNCHANGED <<impl, vInput, treeInput, max_depth, rendering, runVars>>

ValidatorNext == Validate

SpecValidator == ValidatorInit /\ [][ValidatorNext]_vars

\* the comma-separated tokens of the text s once the fence markers and the
\* surrounding whitespace are removed
Tokens(s) == SplitComma(Strip(SubFences(s, 1), Whitespace))

\* the raw items of the input x: the tokens of a text, the items of a list
RawItems(x) == IF x.kind = "str" THEN Tokens(x.val) ELSE x.val

\* a raw item with the surrounding whitespace, then the surrounding quote
\* and space characters removed
Trimmed(t) == Strip(Strip(t, Whitespace), QuoteChars)

\* the entry the validator of im makes of a raw item
Cleaned(im, t) ==
  IF im = "legacy" THEN Trimmed(t) ELSE ReplaceDoubleSlash(Trimmed(t))

\* number of commas in the text s
CommaCount(s) == Cardinality({i \in 1..Len(s) : s[i] = ","})

\* C12 as stated: a text of N tokens, each non-empty after trimming
\* whitespace, gives exactly N entries, entry i being token i without its
\* surrounding quote and whitespace characters.
C12_EveryTokenKept ==
  (pc = "v_done" /\ vInput.kind = "str"
     /\ \A i \in 1..Len(Tokens(vInput.val)) :
          Strip(Tokens(vInput.val)[i], Whitespace) # <<>>)
    => /\ validated.ok
       /\ Len(validated.patterns) = Len(Tokens(vInput.val))
       /\ \A i \in 1..Len(Tokens(vInput.val)) :
            validated.patterns[i]
              = Strip(Tokens(vInput.val)[i], Whitespace \cup QuoteChars)

\* C12 amended: a text of N tokens, each non-empty after trimming whitespace
\* and then quote and space characters, gives exactly N entries (N being one
\* more than the number of commas), in the original order; entry i is token i
\* so trimmed (with every '//' replaced by '/' in core/gemini_client.py) and
\* neither starts nor ends with a quote or space character.
C12_TokensKeptInOrder ==
  (pc = "v_done" /\ vInput.kind = "str"
     /\ \A i \in 1..Len(Tokens(vInput.val)) :
          Trimmed(Tokens(vInput.val)[i]) # <<>>)
    => /\ validated.ok
       /\ Len(validated.patterns) = Len(Tokens(vInput.val))
       /\ Len(validated.patterns)
            = 1 + CommaCount(Strip(SubFences(vInput.val, 1), Whitespace))
       /\ \A i \in 1..Len(Tokens(vInput.val)) :
            LET e == validated.patterns[i]
            IN  /\ e = Cleaned(impl, Tokens(vInput.val)[i])
                /\ e # <<>>
                /\ e[1] \notin QuoteChars
                /\ e[Len(e)] \notin QuoteChars

\* C12 witness: a fenced text of two tokens validated to two entries, the
\* second one freed of its quotes.
C12_Witness ==
  /\ pc = "v_done"
  /\ vInput.kind = "str"
  /\ HasTicks(vInput.val, 1)
  /\ Len(Tokens(vInput.val)) = 2
  /\ \A i \in 1..2 : Trimmed(Tokens(vInput.val)[i]) # <<>>
  /\ Len(validated.patterns) = 2
  /\ validated.patterns[2] # Tokens(vInput.val)[2]

\* C13 as stated: the validator fails exactly when the input is neither a
\* string nor a sequence; every sequence type is accepted.
C13_RejectsOnlyNonSequences ==
  pc = "v_done" => (validated.ok <=> vInput.kind \in {"str", "list", "tuple"})

\* C13 amended: the validator fails exactly when the input is neither a str
\* nor a list; a tuple, like any other object, is rejected.
C13_AcceptsStrAndListOnly ==
  pc = "v_done" => (validated.ok <=> vInput.kind \in {"str", "list"})

\* C13 witness: a non-empty tuple of items was handed over and rejected.
C13_Witness ==
  /\ pc = "v_done"
  /\ vInput.kind = "tuple"
  /\ vInput.val # <<>>
  /\ ~validated.ok

\* C14 as stated: no cleaned pattern occurs twice in the returned sequence.
C14_Deduplicated ==
  (pc = "v_done" /\ validated.ok)
    => \A i, j \in 1..Len(validated.patterns) :
         i # j => validated.patterns[i] # validated.patterns[j]

\* the raw items of the input that survive the cleaning
KeptItems(x) == {i \in 1..Len(RawItems(x)) : Trimmed(RawItems(x)[i]) # <<>>}

\* C14 amended: the returned sequence is order-preserving and keeps
\* repetitions: it has one entry for each raw item that is non-empty after
\* cleaning, in input order, equal entries included.
C14_OrderPreservingKeepsDuplicates ==
  (pc = "v_done" /\ validated.ok)
    => /\ Len(validated.patterns) = Cardinality(KeptItems(vInput))
       /\ \A i \in KeptItems(vInput) :
            validated.patterns[Cardinality({m \in KeptItems(vInput) : m <= i})]
              = Cleaned(impl, RawItems(vInput)[i])

\* C14 witness: two raw items that differ were cleaned to the same pattern,
\* and the returned sequence holds it twice.
C14_Witness ==
  /\ pc = "v_done"
  /\ validated.ok
  /\ Len(RawItems(vInput)) = 2
  /\ RawItems(vInput)[1] # RawItems(vInput)[2]
  /\ Len(validated.patterns) = 2
  /\ validated.patterns[1] = validated.patterns[2]

\* C15: every entry of a pattern set (validator output, generator result,
\* merged exclude set) is non-empty after trimming surrounding whitespace
\* and quote characters.
C15_EntriesNeverBlank ==
  /\ \A i \in 1..Len(validated.patterns) :
       Strip(validated.patterns[i], Whitespace \cup QuoteChars) # <<>>
  /\ \A p \in AutoPatterns(genResult) \cup excludePatterns :
       Strip(p, Whitespace \cup QuoteChars) # <<>>

\* the text s holds two '/' characters in a row
HasDoubleSlash(s) == \E i \in 1..Len(s) - 1 : s[i] = "/" /\ s[i + 1] = "/"

\* C24: no pattern returned by the validator of core/gemini_client.py holds
\* two consecutive '/' characters.
C24_NoDoubleSeparator ==
  (pc = "v_done" /\ impl = "app")
    => \A i \in 1..Len(validated.patterns) :
         ~HasDoubleSlash(validated.patterns[i])

\* C25: the validator leaves its own output unchanged: validating the list
\* it returned gives the same entries in the same order.
C25_Idempotent ==
  (pc = "v_done" /\ validated.ok)
    => ParseAndClean(impl, [kind |-> "list", val |-> validated.patterns])
         = validated

\* ------------------------------------------------------ Tree Renderer
\* code points of the characters of the entry names
Code(c) == CASE c = "B" -> 66 [] c = "a" -> 97 [] c = "b" -> 98 [] c = "r" -> 114

\* the four-character segments of a line, each standing for its glyphs: the
\* corner connector of a last sibling, the tee connector of the others, the
\* indent unit with a vertical bar and the blank indent unit
Corner == "CORNER"
Tee    == "TEE"
Bar    == "BAR"
Blank  == "BLANK"

RECURSIVE LexLess(_, _)
\* s < t for two str values: code point order, a proper prefix first
LexLess(s, t) ==
  IF t = <<>> THEN FALSE
  ELSE IF s = <<>> THEN TRUE
  ELSE IF Head(s) = Head(t) THEN LexLess(Tail(s), Tail(t))
  ELSE Code(Head(s)) < Code(Head(t))

\* the sort key of the siblings compared by the names alone
KeyLessByName(im, x, y) == LexLess(x.name, y.name)

\* x sorts before y: sorted(os.listdir(path)) in main.py,
\* sorted(path.iterdir(), key=lambda x: (not x.is_dir(), x.name)) in
\* core/directory_analyzer.py
KeyLess(im, x, y) ==
  IF im = "legacy"
  THEN LexLess(x.name, y.name)
  ELSE \/ x.kind = "dir" /\ y.kind # "dir"
       \/ (x.kind = "dir") = (y.kind = "dir") /\ LexLess(x.name, y.name)

RECURSIVE SortItems(_, _)
\* the sorted listing of the set S of entries
SortItems(im, S) ==
  IF S = {} THEN <<>>
  ELSE LET first == CHOOSE x \in S : \A y \in S \ {x} : KeyLess(im, x, y)
       IN  <<first>> \o SortItems(im, S \ {first})

\* the guard "depth > max_depth" taken one level too late
TooDeepOffByOne(depth, D) == depth > D + 1

\* the guard "depth > max_depth"
TooDeep(depth, D) == depth > D

\* one line of the result: the path and depth arguments of the call that
\* wrote it, the indent units of its prefix, its connector glyph, the name
\* it shows, whether a "/" follows, and what the line is
Line(path, depth, prefix, connector, text, slash, kind) ==
  [path |-> path, depth |-> depth, prefix |-> prefix, connector |-> connector,
   text |-> text, slash |-> slash, kind |-> kind]

\* a failed listing that writes nothing
ListingFailedSilently(own, path, depth, new_prefix, listing) == <<own>>

\* the except branches of the listing: the placeholder line is added to the
\* directory's own line and the call returns
ListingFailed(own, path, depth, new_prefix, listing) ==
  <<own, Line(path, depth, new_prefix, Corner, <<>>, FALSE,
              IF listing = "perm" THEN "permission" ELSE "os_error")>>

RECURSIVE CreateDirectoryTree(_, _, _, _, _, _, _, _)
RECURSIVE RenderItems(_, _, _, _, _, _, _)

\* the for loop over the sorted items, from item i on
RenderItems(im, items, i, path, depth, D, new_prefix) ==
  IF i > Len(items) THEN <<>>
  ELSE CreateDirectoryTree(im, items[i], Append(path, items[i].name),
                           depth + 1, D, new_prefix, i = Len(items), FALSE)
         \o RenderItems(im, items, i + 1, path, depth, D, new_prefix)

\* create_directory_tree: node is what the file system holds at path
CreateDirectoryTree(im, node, path, depth, D, prefix, is_last, is_root) ==
  IF TooDeep(depth, D)
  THEN <<Line(path, depth, prefix, Corner, <<>>, FALSE, "max_depth")>>
  ELSE IF node.kind = "missing"
  THEN <<Line(path, depth, prefix, Corner, node.name, FALSE, "not_found")>>
  ELSE
    LET own == IF is_root
               THEN Line(path, depth, <<>>, "", node.name,
                         node.kind = "dir", "entry")
               ELSE Line(path, depth, prefix,
                         IF is_last THEN Corner ELSE Tee,
                         node.name, node.kind = "dir", "entry")
        new_prefix == Append(prefix,
                             IF is_last \/ is_root THEN Blank ELSE Bar)
    IN  IF node.kind # "dir" THEN <<own>>
        ELSE IF node.listing # "ok"
        THEN ListingFailed(own, path, depth, new_prefix, node.listing)
        ELSE <<own>> \o RenderItems(im, SortItems(im, node.children), 1,
                                    path, depth, D, new_prefix)

\* an entry of the file system without its name
Shape(kind, listing, children) ==
  [kind |-> kind, listing |-> listing, children |-> children]

\* the entry of that shape called n
Named(n, sh) ==
  [name |-> n, kind |-> sh.kind, listing |-> sh.listing,
   children |-> sh.children]

\* the contents a directory can have: some of the names, each with a shape
Contents(names, shapes) ==
  UNION {{{Named(n, g[n]) : n \in S} : g \in [S -> shapes]} :
           S \in SUBSET names}

\* entries two levels below the root: a file, an empty directory, a
\* directory that cannot be listed
LeafShapes ==
  {Shape("file", "ok", {}), Shape("dir", "ok", {}), Shape("dir", "perm", {})}

\* entries one level below the root: a file, a dangling link, a directory
\* (listable or not) with its contents
MidShapes ==
  {Shape("file", "ok", {}), Shape("missing", "ok", {})}
    \cup {Shape("dir", l, c) :
            l \in {"ok", "perm", "oserr"},
            c \in Contents({<<"a">>, <<"a", "b">>}, LeafShapes)}

\* the trees handed to the renderer
Trees ==
  {Named(<<"r">>, sh) :
     sh \in {Shape("file", "ok", {}), Shape("missing", "ok", {})}
              \cup {Shape("dir", l, c) :
                      l \in {"ok", "perm", "oserr"},
                      c \in Contents({<<"B">>, <<"a">>}, MidShapes)}}

TreeInit ==
  /\ impl \in {"legacy", "app"}
  /\ pc = "t_input"
  /\ treeInput \in Trees
  /\ max_depth \in -1..MaxDepthBound
  /\ rendering = <<>>
  /\ vInput = NoValue
  /\ validated = [ok |-> FALSE, patterns |-> <<>>]
  /\ RunIdle

\* create_directory_tree(path) with the defaults depth=0, prefix="",
\* is_last=True, is_root=True
RenderTree ==
  /\ pc = "t_input"
  /\ rendering' = CreateDirectoryTree(impl, treeInput, <<treeInput.name>>, 0,
                                      max_depth, <<>>, TRUE, TRUE)
  /\ pc' = "t_done"
  /\ UNCHANGED <<impl, treeInput, max_depth, vInput, validated, runVars>>

TreeNext == RenderTree

SpecTree == TreeInit /\ [][TreeNext]_vars

RECURSIVE Reach(_, _)
\* the entries a full descent from node would meet, each with its path:
\* the node, and below a listable directory the entries of its contents
Reach(node, path) ==
  {[path |-> path, node |-> node]}
    \cup IF node.kind = "dir" /\ node.listing = "ok"
         THEN UNION {Reach(c, Append(path, c.name)) : c \in node.children}
         ELSE {}

\* the entries met from the root of the tree handed over
Reached == Reach(treeInput, <<treeInput.name>>)

\* depth of the entry at path p (the root has depth 0)
DepthOf(p) == Len(p) - 1

\* p is a proper prefix of q
ProperPrefix(p, q) == Len(p) < Len(q) /\ SubSeq(q, 1, Len(p)) = p

\* the lines of the rendering written for path p
LinesOf(p) == {k \in 1..Len(rendering) : rendering[k].path = p}

\* the lines that show the name of an entry
Names(line) == line.kind \in {"entry", "not_found"}

\* C16: no line names an entry deeper than the depth bound; every entry met
\* one level below the bound gives exactly one line, the max-depth
\* placeholder, and nothing below it gives a line.
C16_DepthBounded ==
  pc = "t_done"
    => /\ \A k \in 1..Len(rendering) :
            /\ Names(rendering[k]) => DepthOf(rendering[k].path) <= max_depth
            /\ DepthOf(rendering[k].path) <= max_depth + 1
            /\ rendering[k].kind = "max_depth"
                 <=> DepthOf(rendering[k].path) = max_depth + 1
       /\ \A r \in Reached :
            /\ DepthOf(r.path) = max_depth + 1 => Cardinality(LinesOf(r.path)) = 1
            /\ DepthOf(r.path) > max_depth + 1 => LinesOf(r.path) = {}
       /\ Cardinality({k \in 1..Len(rendering) : rendering[k].kind = "max_depth"})
            = Cardinality({r \in Reached : DepthOf(r.path) = max_depth + 1})

\* C16 witness: with bound 1 a directory of two entries sits at depth 1; its
\* line is followed by two placeholders and the rendering names nothing at
\* depth 2.
C16_Witness ==
  /\ pc = "t_done"
  /\ max_depth = 1
  /\ \E r \in Reached :
       /\ DepthOf(r.path) = 1
       /\ r.node.kind = "dir"
       /\ r.node.listing = "ok"
       /\ Cardinality(r.node.children) = 2
       /\ \E k \in 1..Len(rendering) - 2 :
            /\ rendering[k].path = r.path
            /\ rendering[k + 1].kind = "max_depth"
            /\ rendering[k + 2].kind = "max_depth"

\* the lines i and j name two entries of the same directory
Siblings(i, j) ==
  /\ i # j
  /\ Names(rendering[i])
  /\ Names(rendering[j])
  /\ Len(rendering[i].path) = Len(rendering[j].path)
  /\ Len(rendering[i].path) > 1
  /\ SubSeq(rendering[i].path, 1, Len(rendering[i].path) - 1)
       = SubSeq(rendering[j].path, 1, Len(rendering[j].path) - 1)

\* C17 as stated: of two siblings the one with the smaller name comes first,
\* whichever of them is a directory.
C17_SiblingsByName ==
  pc = "t_done"
    => \A i, j \in 1..Len(rendering) :
         (Siblings(i, j) /\ LexLess(rendering[i].text, rendering[j].text))
           => i < j

\* C17 amended: in main.py the siblings come in the order of their names,
\* directories and files interleaved; in core/directory_analyzer.py the
\* directories of a directory come before its other entries, and within each
\* of the two groups the order is that of the names.
C17_SiblingsByKindThenName ==
  pc = "t_done"
    => \A i, j \in 1..Len(rendering) :
         Siblings(i, j)
           => (i < j <=>
                 IF impl = "legacy"
                 THEN LexLess(rendering[i].text, rendering[j].text)
                 ELSE \/ rendering[i].slash /\ ~rendering[j].slash
                      \/ /\ rendering[i].slash = rendering[j].slash
                         /\ LexLess(rendering[i].text, rendering[j].text))

\* C17 witness: core/directory_analyzer.py has written the line of a
\* directory before the line of a sibling file with a smaller name.
C17_Witness ==
  /\ pc = "t_done"
  /\ impl = "app"
  /\ \E i, j \in 1..Len(rendering) :
       /\ Siblings(i, j)
       /\ i < j
       /\ rendering[i].slash
       /\ rendering[j].kind = "entry"
       /\ ~rendering[j].slash
       /\ LexLess(rendering[j].text, rendering[i].text)

\* number of leading segments of a line: its indent units and its connector
Segments(line) == Len(line.prefix) + (IF line.connector = "" THEN 0 ELSE 1)

\* C18: every line of an entry has as many leading segments (indent units
\* plus connector glyph) as the entry has depth.
C18_SegmentsEqualDepth ==
  pc = "t_done"
    => \A k \in 1..Len(rendering) :
         rendering[k].kind = "entry"
           => Segments(rendering[k]) = DepthOf(rendering[k].path)

\* a line that reports a failed listing
FailureLine(line) == line.kind \in {"permission", "os_error"}

RECURSIVE Emptied(_)
\* the tree with every directory that cannot be listed made an empty one
Emptied(node) ==
  IF node.kind # "dir" THEN node
  ELSE IF node.listing # "ok"
  THEN [name |-> node.name, kind |-> "dir", listing |-> "ok", children |-> {}]
  ELSE [name |-> node.name, kind |-> "dir", listing |-> "ok",
        children |-> {Emptied(c) : c \in node.children}]

\* C19: a directory within the depth bound that cannot be listed gets its
\* own line, directly followed by one placeholder line one unit deeper with
\* the corner connector, and no line for anything below it; without the
\* failure placeholders the rendering is that of the tree in which those
\* directories are empty.
C19_ListingFailureLocal ==
  pc = "t_done"
    => /\ \A r \in Reached :
            (r.node.kind = "dir" /\ r.node.listing # "ok"
               /\ DepthOf(r.path) <= max_depth)
              => /\ Cardinality(LinesOf(r.path)) = 2
                 /\ \E k \in 1..Len(rendering) - 1 :
                      /\ rendering[k].path = r.path
                      /\ rendering[k].kind = "entry"
                      /\ rendering[k].slash
                      /\ rendering[k + 1].path = r.path
                      /\ rendering[k + 1].kind
                           = (IF r.node.listing = "perm"
                              THEN "permission" ELSE "os_error")
                      /\ rendering[k + 1].connector = Corner
                      /\ Len(rendering[k + 1].prefix) = DepthOf(r.path) + 1
                      /\ SubSeq(rendering[k + 1].prefix, 1, DepthOf(r.path))
                           = rendering[k].prefix
                 /\ \A k \in 1..Len(rendering) :
                      ~ProperPrefix(r.path, rendering[k].path)
       /\ SelectSeq(rendering, LAMBDA l : ~FailureLine(l))
            = CreateDirectoryTree(impl, Emptied(treeInput), <<treeInput.name>>,
                                  0, max_depth, <<>>, TRUE, TRUE)

\* C19 witness: a directory with contents that cannot be listed was rendered
\* with its placeholder, and the line of its sibling follows.
C19_Witness ==
  /\ pc = "t_done"
  /\ \E r \in Reached :
       /\ r.node.kind = "dir"
       /\ r.node.listing # "ok"
       /\ r.node.children # {}
       /\ \E k \in 1..Len(rendering) - 2 :
            /\ rendering[k].path = r.path
            /\ FailureLine(rendering[k + 1])
            /\ rendering[k + 2].kind = "entry"
            /\ DepthOf(rendering[k + 2].path) = DepthOf(r.path)

====
